---- MODULE Spec2Model ----
(***************************************************************************)
(* Model of frontend/crop_thumb.py: a script that opens one image, crops   *)
(* away the left part of its width and saves the rest to a second path,    *)
(* printing one status line.  The file system, the image library (Pillow)  *)
(* calls the script makes and the Python runtime around the script are     *)
(* modelled as far as the script's behaviour depends on them.              *)
(*                                                                         *)
(* A raster is kept as its size plus the set of positions holding a set    *)
(* (value 1) pixel; every other position holds 0.  In memory a position is *)
(* a pair <<column, row>>; in a file it is the row-major offset            *)
(* row * width + column of the pixel in the data stream, and a file also   *)
(* records how many data units of the stream were actually written.        *)
(***************************************************************************)
EXTENDS Integers, Sequences, FiniteSets, TLC

\* ---------------------------------------------------------------- bounds
MaxWidth == 12
MaxHeight == 2
MaxDense == 4
MaxRuns == 2

\* ------------------------------------------------------ program constants
image_path ==
    "d:/GRADUS Project/GRADUS/frontend/public/assets/images/thumbs/why-gradus-thumbnail.png"
output_path ==
    "d:/GRADUS Project/GRADUS/frontend/public/assets/images/thumbs/why-gradus-thumbnail-cropped.png"
Paths == {image_path, output_path}

\* The literal 0.45 of `left = width * 0.45`, in hundredths.
CropPercent == 45

\* ------------------------------------------------------------ file system
Absent == [kind |-> "absent"]
Garbage == [kind |-> "garbage"]
Unreadable == [kind |-> "unreadable"]

ImageFile(w, h, len, on) ==
    [kind |-> "image", w |-> w, h |-> h, len |-> len, on |-> on]

Coords(w, h) == (0 .. w - 1) \X (0 .. h - 1)

\* Encoding: the writer emits the header (the size) and then the pixel data
\* row by row; `n` is the number of data units that reach the file.
WriteStream(im, n) ==
    ImageFile(im.w, im.h, n,
              {o \in {p[2] * im.w + p[1] : p \in im.on} : o < n})

Encode(im) == WriteStream(im, im.w * im.h)

\* Decoding: the inverse walk over the data stream.
Decode(f) ==
    [w |-> f.w, h |-> f.h, loaded |-> TRUE,
     on |-> {<<o % f.w, o \div f.w>> : o \in f.on}]

PixelAt(im, c, r) == IF <<c, r>> \in im.on THEN 1 ELSE 0

\* ------------------------------------------------------------- exceptions
NoExc == [type |-> "none", text |-> ""]
FileNotFoundError(path) == [type |-> "FileNotFoundError", text |-> path]
PermissionError(path) == [type |-> "PermissionError", text |-> path]
UnidentifiedImageError(path) == [type |-> "UnidentifiedImageError", text |-> path]
TruncatedError == [type |-> "OSError", text |-> "image file is truncated"]
NoSpaceError == [type |-> "OSError", text |-> "No space left on device"]

\* The classes `except Exception` catches: every error the three calls raise.
CaughtOnlyFileNotFound(e) == e.type = "FileNotFoundError"

Caught(e) ==
    e.type \in {"FileNotFoundError", "PermissionError",
                "UnidentifiedImageError", "OSError", "ValueError"}


\* ------------------------------------------------ Image.open (line 8)
\* Image.open identifies the file and reads its header only; the pixel data
\* is read later, by the first operation that needs it.
NoImage == [w |-> 0, h |-> 0, loaded |-> FALSE, on |-> {}]

OpenResult(dir, f) ==
    IF dir = "missing" \/ f.kind = "absent"
    THEN [exc |-> FileNotFoundError(image_path), img |-> NoImage]
    ELSE IF f.kind = "unreadable"
    THEN [exc |-> PermissionError(image_path), img |-> NoImage]
    ELSE IF f.kind = "garbage"
    THEN [exc |-> UnidentifiedImageError(image_path), img |-> NoImage]
    ELSE [exc |-> NoExc,
          img |-> [w |-> f.w, h |-> f.h, loaded |-> FALSE, on |-> {}]]

\* ------------------------------------------- crop rectangle (lines 16-19)
\* `width * 0.45` is a binary double.  It is held here in hundredths of a
\* pixel, 45 * width: the double differs from that rational by less than
\* half a unit in the last place, so it equals k + 0.5 exactly whenever the
\* rational does and lies on the same side of every k + 0.5 otherwise, which
\* is all that rounding and the comparisons below read.
CropBoxHalf(w, h) ==
    [left |-> w * 50, top |-> 0, right |-> w, bottom |-> h]

CropBox(w, h) ==
    [left |-> w * CropPercent, top |-> 0, right |-> w, bottom |-> h]

\* ------------------------------------------------ Image.crop (line 21)
\* Python's round() on a float: nearest integer, a tie going to the even one.
roundDown(x100) == x100 \div 100

roundUp(x100) == (x100 + 99) \div 100

round(x100) ==
    LET q == x100 \div 100
        r == x100 % 100
    IN  IF r < 50 THEN q
        ELSE IF r > 50 THEN q + 1
        ELSE IF q % 2 = 0 THEN q ELSE q + 1

\* The region copy: a new raster of the box's size whose position (c, r)
\* holds the source's position (x0 + c, y0 + r).
CropImageNoShift(im, x0, y0, x1, y1) ==
    [w |-> x1 - x0, h |-> y1 - y0, loaded |-> TRUE,
     on |-> {p \in im.on : /\ 0 <= p[1] /\ p[1] < x1 - x0
                           /\ 0 <= p[2] /\ p[2] < y1 - y0}]

CropImage(im, x0, y0, x1, y1) ==
    [w |-> x1 - x0, h |-> y1 - y0, loaded |-> TRUE,
     on |-> {<<p[1] - x0, p[2] - y0>> :
                p \in {q \in im.on : /\ x0 <= q[1] /\ q[1] < x1
                                     /\ y0 <= q[2] /\ q[2] < y1}}]

\* crop(box): reject an inverted box, load the pixel data (which fails on a
\* data stream shorter than the header announces), round the box to
\* integers and copy the region.
CropResult(f, im, box) ==
    IF box.right * 100 < box.left
    THEN [exc |-> [type |-> "ValueError",
                   text |-> "Coordinate 'right' is less than 'left'"],
          img |-> NoImage]
    ELSE IF box.bottom < box.top
    THEN [exc |-> [type |-> "ValueError",
                   text |-> "Coordinate 'lower' is less than 'upper'"],
          img |-> NoImage]
    ELSE IF f.kind # "image" \/ f.len < f.w * f.h
    THEN [exc |-> TruncatedError, img |-> NoImage]
    ELSE [exc |-> NoExc,
          img |-> CropImage(Decode(f), round(box.left), box.top,
                            box.right, box.bottom)]

\* ------------------------------------------------ Image.save (line 24)
\* save(path) opens the path for writing, which creates or empties it, and
\* streams the encoding into it.  The open fails when the directory is
\* missing or refuses writes; the stream breaks off when the device has
\* room for fewer data units than the image needs.  A library build that
\* cleans up removes a file this call created when the stream breaks off.
SaveResultAnyDir(dir, old, im, free, cleanup) ==
    [exc |-> NoExc, file |-> Encode(im)]

SaveResultExclusive(dir, old, im, free, cleanup) ==
    IF old.kind # "absent"
    THEN [exc |-> PermissionError(output_path), file |-> old]
    ELSE [exc |-> NoExc, file |-> Encode(im)]

SaveResultAlwaysRemove(dir, old, im, free, cleanup) ==
    IF dir = "missing"
    THEN [exc |-> FileNotFoundError(output_path), file |-> old]
    ELSE IF dir = "readonly"
    THEN [exc |-> PermissionError(output_path), file |-> old]
    ELSE IF im.w * im.h <= free
    THEN [exc |-> NoExc, file |-> Encode(im)]
    ELSE [exc |-> NoSpaceError, file |-> Absent]

SaveResult(dir, old, im, free, cleanup) ==
    IF dir = "missing"
    THEN [exc |-> FileNotFoundError(output_path), file |-> old]
    ELSE IF dir = "readonly"
    THEN [exc |-> PermissionError(output_path), file |-> old]
    ELSE IF im.w * im.h <= free
    THEN [exc |-> NoExc, file |-> Encode(im)]
    ELSE [exc |-> NoSpaceError,
          file |-> IF old.kind = "absent" /\ cleanup
                   THEN Absent
                   ELSE WriteStream(im, free)]

\* ------------------------------------------------------------------ state
VARIABLES
    fs,          \* path -> file
    dirState,    \* the thumbs directory: "ok", "readonly" or "missing"
    diskFree,    \* data units the device can still take
    cleansUp,    \* whether the library build removes a file it created
    pc,          \* the statement the script is at
    img, width, height,
    left, top, right, bottom,   \* left in hundredths of a pixel
    cropped_img,
    exc,         \* the exception in flight, NoExc when none
    stdout,      \* the lines printed by this run
    status,      \* the process exit status, -1 while running
    run,         \* which invocation this is
    fs0,         \* the file system when this run started
    failedAt,    \* the step that raised in this run
    raised,      \* the exception that step raised
    prev         \* what the previous run left behind

env == <<dirState, diskFree, cleansUp>>
locals == <<img, width, height, left, top, right, bottom, cropped_img>>
hist == <<run, fs0, prev>>
fail == <<failedAt, raised>>
vars == <<fs, env, pc, locals, exc, stdout, status, hist, fail>>

SuccessLine == [kind |-> "success", text |-> output_path]
ErrorLine(e) == [kind |-> "error", text |-> e.text]

\* -------------------------------------------------------- initial states
ExtraSizes == {<<30, 2>>, <<1000, 500>>}
Sizes == ((1 .. MaxWidth) \X (1 .. MaxHeight)) \cup ExtraSizes

Diagonal(w, h) == {<<c, c % h>> : c \in 0 .. w - 1}

Bitmaps(w, h) ==
    IF w * h <= MaxDense THEN SUBSET Coords(w, h) ELSE {{}, Diagonal(w, h)}

Rasters ==
    UNION {{[w |-> s[1], h |-> s[2], loaded |-> TRUE, on |-> b] :
              b \in Bitmaps(s[1], s[2])} : s \in Sizes}

Plenty == 1000 * 1000

SourceFiles ==
    {Absent, Garbage, Unreadable}
      \cup {Encode(im) : im \in Rasters}
      \cup {WriteStream(im, im.w * im.h - 1) : im \in Rasters}

OldOutput == Encode([w |-> 2, h |-> 1, loaded |-> TRUE, on |-> {<<0, 0>>}])

Init ==
    /\ dirState \in {"ok", "readonly", "missing"}
    /\ \E s \in SourceFiles, d \in {Absent, OldOutput} :
          fs = (image_path :> s) @@ (output_path :> d)
    /\ dirState = "missing" => \A p \in Paths : fs[p] = Absent
    /\ diskFree \in {0, 1, Plenty}
    /\ cleansUp \in BOOLEAN
    /\ pc = "open"
    /\ img = NoImage /\ cropped_img = NoImage
    /\ width = 0 /\ height = 0
    /\ left = 0 /\ top = 0 /\ right = 0 /\ bottom = 0
    /\ exc = NoExc
    /\ stdout = <<>>
    /\ status = -1
    /\ run = 1
    /\ fs0 = fs
    /\ failedAt = "none"
    /\ raised = NoExc
    /\ prev = [ran |-> FALSE, ok |-> FALSE, dst |-> Absent, src |-> Absent,
               src0 |-> Absent]

\* ---------------------------------------------------------------- actions
\* An exception leaves the try body: the handler takes it when its class is
\* one the except clause names, otherwise it reaches the interpreter.
Raise(e, step) ==
    /\ exc' = e
    /\ failedAt' = step
    /\ raised' = e
    /\ pc' = IF Caught(e) THEN "except" ELSE "exit"

\* lines 8-9
OpenTouchingOutput ==
    /\ pc = "open"
    /\ LET res == OpenResult(dirState, fs[image_path]) IN
       IF res.exc = NoExc
       THEN /\ img' = res.img
            /\ width' = res.img.w
            /\ height' = res.img.h
            /\ pc' = "box"
            /\ UNCHANGED <<exc, fail>>
       ELSE /\ Raise(res.exc, "open")
            /\ UNCHANGED <<img, width, height>>
    /\ fs' = IF dirState = "ok"
             THEN [fs EXCEPT ![output_path] = Garbage]
             ELSE fs
    /\ UNCHANGED <<env, left, top, right, bottom, cropped_img,
                   stdout, status, hist>>

Open ==
    /\ pc = "open"
    /\ LET res == OpenResult(dirState, fs[image_path]) IN
       IF res.exc = NoExc
       THEN /\ img' = res.img
            /\ width' = res.img.w
            /\ height' = res.img.h
            /\ pc' = "box"
            /\ UNCHANGED <<exc, fail>>
       ELSE /\ Raise(res.exc, "open")
            /\ UNCHANGED <<img, width, height>>
    /\ UNCHANGED <<fs, env, left, top, right, bottom, cropped_img,
                   stdout, status, hist>>

\* lines 16-19
ComputeBox ==
    /\ pc = "box"
    /\ LET box == CropBox(width, height) IN
       /\ left' = box.left
       /\ top' = box.top
       /\ right' = box.right
       /\ bottom' = box.bottom
    /\ pc' = "crop"
    /\ UNCHANGED <<fs, env, img, width, height, cropped_img, exc, stdout,
                   status, hist, fail>>

\* line 21
Crop ==
    /\ pc = "crop"
    /\ LET res == CropResult(fs[image_path], img,
                             [left |-> left, top |-> top,
                              right |-> right, bottom |-> bottom]) IN
       IF res.exc = NoExc
       THEN /\ cropped_img' = res.img
            /\ img' = Decode(fs[image_path])
            /\ pc' = "save"
            /\ UNCHANGED <<exc, fail>>
       ELSE /\ Raise(res.exc, "crop")
            /\ UNCHANGED <<img, cropped_img>>
    /\ UNCHANGED <<fs, env, width, height, left, top, right, bottom,
                   stdout, status, hist>>

\* line 24
Save ==
    /\ pc = "save"
    /\ LET res == SaveResult(dirState, fs[output_path], cropped_img,
                             diskFree, cleansUp) IN
       /\ fs' = [fs EXCEPT ![output_path] = res.file]
       /\ IF res.exc = NoExc
          THEN /\ pc' = "print"
               /\ UNCHANGED <<exc, fail>>
          ELSE Raise(res.exc, "save")
    /\ UNCHANGED <<env, locals, stdout, status, hist>>

\* line 25
PrintSuccess ==
    /\ pc = "print"
    /\ stdout' = Append(stdout, SuccessLine)
    /\ pc' = "exit"
    /\ UNCHANGED <<fs, env, locals, exc, status, hist, fail>>

\* lines 27-28
HandleExceptionSilent ==
    /\ pc = "except"
    /\ exc' = NoExc
    /\ pc' = "exit"
    /\ UNCHANGED <<fs, env, locals, stdout, status, hist, fail>>

HandleException ==
    /\ pc = "except"
    /\ stdout' = Append(stdout, ErrorLine(exc))
    /\ exc' = NoExc
    /\ pc' = "exit"
    /\ UNCHANGED <<fs, env, locals, status, hist, fail>>

\* The end of the script: the interpreter exits 0, or 1 with a traceback
\* when an exception is still in flight.
Exit ==
    /\ pc = "exit"
    /\ status' = IF exc = NoExc THEN 0 ELSE 1
    /\ pc' = "done"
    /\ UNCHANGED <<fs, env, locals, exc, stdout, hist, fail>>

\* The script is run again, on the files the previous run left.
Rerun ==
    /\ pc = "done"
    /\ run < MaxRuns
    /\ prev' = [ran |-> TRUE,
                ok |-> stdout = <<SuccessLine>> /\ status = 0,
                dst |-> fs[output_path],
                src |-> fs[image_path],
                src0 |-> fs0[image_path]]
    /\ run' = run + 1
    /\ fs0' = fs
    /\ pc' = "open"
    /\ img' = NoImage /\ cropped_img' = NoImage
    /\ width' = 0 /\ height' = 0
    /\ left' = 0 /\ top' = 0 /\ right' = 0 /\ bottom' = 0
    /\ exc' = NoExc
    /\ stdout' = <<>>
    /\ status' = -1
    /\ failedAt' = "none"
    /\ raised' = NoExc
    /\ UNCHANGED <<fs, env>>

Next ==
    \/ Open
    \/ ComputeBox
    \/ Crop
    \/ Save
    \/ PrintSuccess
    \/ HandleException
    \/ Exit
    \/ Rerun

Spec == Init /\ [][Next]_vars

\* ================================================================ claims
Src0 == fs0[image_path]
Out0 == fs0[output_path]
Out == fs[output_path]

\* The source was a complete image of at least one pixel when the run began.
ValidSource ==
    /\ Src0.kind = "image"
    /\ Src0.w >= 1 /\ Src0.h >= 1
    /\ Src0.len = Src0.w * Src0.h

\* The run has ended and nothing in it failed.
Succeeded == failedAt = "none" /\ pc = "done"

\* The truncation of 0.45 * W, and the integer nearest to 0.45 * W with a
\* tie going to the even neighbour, each stated from the arithmetic alone.
FloorLeft(W) == (45 * W) \div 100

NearestLeft(W) ==
    CHOOSE k \in 0 .. W :
        LET d == 100 * k - 45 * W IN
        \/ -50 < d /\ d < 50
        \/ (d = 50 \/ d = -50) /\ k % 2 = 0

\* C1 as stated: after a successful run on a valid W x H source the output
\* is (W - floor(W * 45 / 100)) x H.
C1_FloorWidth ==
    (ValidSource /\ Succeeded) =>
        /\ Out.kind = "image"
        /\ Out.w = Src0.w - FloorLeft(Src0.w)
        /\ Out.h = Src0.h

\* C1 amended: after a successful run on a valid W x H source the output is
\* (W - n) x H, n being the integer nearest to 0.45 * W, the even one on a tie.
C1_RoundedWidth ==
    (ValidSource /\ Succeeded) =>
        /\ Out.kind = "image"
        /\ Out.w = Src0.w - NearestLeft(Src0.w)
        /\ Out.h = Src0.h

C1_Witness ==
    /\ ValidSource /\ Succeeded
    /\ Src0.w = 30
    /\ Out.w = 16

\* The output's pixels are the source's, `n` columns further right.
SamePixels(o, s, n) ==
    /\ o.w = s.w - n
    /\ o.h = s.h
    /\ \A c \in 0 .. s.w - 1 - n, r \in 0 .. s.h - 1 :
          PixelAt(o, c, r) = PixelAt(s, n + c, r)

ShiftedBy(n) == SamePixels(Decode(Out), Decode(Src0), n)

\* C2 as stated: after a successful run on a valid lossless source, output
\* pixel (c, r) equals source pixel (floor(0.45 W) + c, r) for every
\* 0 <= c <= W - 1 - floor(0.45 W), 0 <= r < H, and nothing left of that
\* column is in the output.
C2_FloorPixels ==
    (ValidSource /\ Succeeded) =>
        Out.kind = "image" /\ ShiftedBy(FloorLeft(Src0.w))

\* C2 amended: the same with the start column n the integer nearest to
\* 0.45 * W (the even one on a tie): output pixel (c, r) equals source pixel
\* (n + c, r) for 0 <= c <= W - 1 - n, 0 <= r < H, and the output has no
\* other column.
C2_RoundedPixels ==
    (ValidSource /\ Succeeded) =>
        Out.kind = "image" /\ ShiftedBy(NearestLeft(Src0.w))

C2_Witness ==
    /\ ValidSource /\ Succeeded
    /\ Src0.w = 2 /\ Src0.h = 2
    /\ Decode(Src0).on = {<<1, 0>>, <<0, 1>>}
    /\ Decode(Out).on = {<<0, 0>>}

\* C9: a successful run on a 1000 x 500 source writes a 550 x 500 image.
C9_Example ==
    (ValidSource /\ Succeeded /\ Src0.w = 1000 /\ Src0.h = 500) =>
        Out.kind = "image" /\ Out.w = 550 /\ Out.h = 500

C9_Witness ==
    /\ ValidSource /\ Succeeded
    /\ Src0.w = 1000 /\ Src0.h = 500
    /\ Out.w = 550 /\ Out.h = 500

\* The box has been computed from a decoded image of at least one pixel.
BoxComputed ==
    /\ width >= 1 /\ height >= 1
    /\ \/ pc \in {"crop", "save", "print"}
       \/ pc \in {"except", "exit", "done"} /\ failedAt # "open"

\* The crop has produced its image.
Cropped ==
    /\ width >= 1 /\ height >= 1
    /\ \/ pc \in {"save", "print"}
       \/ pc \in {"except", "exit", "done"} /\ failedAt \in {"save", "none"}

\* C10: for a decoded image of at least one pixel the box handed to crop
\* satisfies 0 <= left < right <= width and 0 <= top < bottom <= height, as
\* computed (left = 0.45 * width) and as the integer column the copy starts
\* at, so the cropped image is neither empty nor reaches outside the source.
C10_BoxInvariant ==
    /\ BoxComputed =>
          /\ 0 <= left /\ left < right * 100 /\ right <= width
          /\ 0 <= top /\ top < bottom /\ bottom <= height
    /\ Cropped =>
          LET x0 == right - cropped_img.w IN
          /\ 0 <= x0 /\ x0 < right
          /\ 100 * x0 - left <= 50 /\ left - 100 * x0 <= 50
          /\ cropped_img.w >= 1 /\ cropped_img.w <= width
          /\ cropped_img.h = bottom - top

C10_Witness ==
    /\ Cropped /\ pc = "save"
    /\ width = 1
    /\ left = 45
    /\ cropped_img.w = 1

\* C3: with the source path absent the run never reaches the crop or the
\* save, leaves the destination path as it was, and ends having printed the
\* error line.
C3_MissingSource ==
    Src0.kind = "absent" =>
        /\ pc \notin {"box", "crop", "save", "print"}
        /\ Out = Out0
        /\ pc = "done" =>
              /\ failedAt = "open"
              /\ stdout = <<ErrorLine(FileNotFoundError(image_path))>>

C3_Witness ==
    /\ Src0.kind = "absent"
    /\ dirState = "ok"
    /\ pc = "done"
    /\ Out = Absent
    /\ stdout = <<ErrorLine(FileNotFoundError(image_path))>>

C5_AlwaysExitsZero ==
    /\ pc = "exit" => exc = NoExc
    /\ pc = "done" =>
          /\ status = 0
          /\ failedAt # "none" =>
                stdout = <<ErrorLine(raised)>> /\ exc = NoExc

C5_Witness ==
    /\ pc = "done"
    /\ failedAt = "crop"
    /\ raised = TruncatedError
    /\ status = 0

\* C6: a run prints exactly one line: the success line when open, crop and
\* save all completed, and then only once the destination holds the whole
\* encoding of the cropped image; otherwise the error line with the
\* exception's text.  Never both, never neither.
C6_OneStatusLine ==
    /\ Len(stdout) <= 1
    /\ pc = "done" =>
          /\ Len(stdout) = 1
          /\ stdout[1] = SuccessLine <=> failedAt = "none"
          /\ failedAt # "none" => stdout[1] = ErrorLine(raised)
    /\ SuccessLine \in {stdout[i] : i \in DOMAIN stdout} =>
          /\ failedAt = "none"
          /\ Out = Encode(cropped_img)
          /\ Out.len = Out.w * Out.h

C6_Witness ==
    /\ pc = "done"
    /\ run = 1
    /\ stdout = <<ErrorLine(NoSpaceError)>>
    /\ failedAt = "save"

C8_Idempotent ==
    (pc = "done" /\ prev.ran /\ prev.ok) =>
        /\ failedAt = "none"
        /\ stdout = <<SuccessLine>>
        /\ Out = Encode(cropped_img)
        /\ Out = prev.dst
        /\ fs[image_path] = prev.src
        /\ prev.src = prev.src0

C8_Witness ==
    /\ pc = "done"
    /\ run = 2
    /\ prev.ok
    /\ Out0 = prev.dst
    /\ Out = prev.dst
    /\ Out.kind = "image" /\ Out.w = 2 /\ Out.on = {1}
    /\ stdout = <<SuccessLine>>

====
